---------------------------- MODULE Spec2Model ----------------------------
(***************************************************************************)
(* A model of the slide content placement engine of                        *)
(* python/app/powerpoint/tools.py: the content fit analyzer               *)
(* (check_content_fit) and the slide creation call                        *)
(* (add_slide_from_blob_url: layout resolution, placeholder               *)
(* classification, content distribution, saving and cleanup) and the      *)
(* batch update (update_powerpoint_from_blob, update_powerpoint_file).    *)
(*                                                                         *)
(* A Python str is a sequence of characters, each character a one-letter   *)
(* TLA+ string (the bullet sign U+2022 is written "BULLET").  None is the  *)
(* empty set and a present value v is the set {v}, so that an optional     *)
(* value can be compared with any other.                                   *)
(***************************************************************************)
EXTENDS Integers, Sequences, FiniteSets, TLC

VARIABLES
    pc,                     \* the position of the running call
    content,                \* argument content
    limits,                 \* arguments max_title_words .. max_chars_per_line
    fit_result,             \* the dict check_content_fit returned
    slide_type,             \* argument slide_type (None, or a str)
    check_fit,              \* argument check_fit
    catalog,                \* presentation.slide_masters: layouts per master
    dest_url,               \* argument dest_url (None, or a str)
    comments,               \* argument comments (None, or a str)
    cleanup_temp_files,     \* argument cleanup_temp_files
    files,                  \* the temporary files that exist on disk
    local_path,             \* local local_path
    output_local_path,      \* local output_local_path
    upload_error,           \* the exception caught at tools.py:570, if any
    font_size_info,         \* local font_size_info
    exc,                    \* the exception caught at tools.py:580, if any
    layout_obj,             \* local layout_obj
    new_slide,              \* the shapes of the slide added, in shape order
    lines,                  \* local lines
    left_column_content,    \* local left_column_content
    right_column_content,   \* local right_column_content
    column_mode,            \* local column_mode
    content_added,          \* local content_added
    textbox,                \* the text box added at tools.py:525, if any
    notes,                  \* the notes text of the slide added, if written
    result_path,            \* what the call returned
    document,               \* the slides of the presentation file downloaded
    prs,                    \* update_powerpoint_file: local prs
    slide_updates,          \* argument slide_updates
    update_index,           \* the place of the loop over slide_updates
    file_exc,               \* the exception caught at tools.py:726, if any
    success,                \* what update_powerpoint_file returned
    error,                  \* update_powerpoint_from_blob: local error
    returned,               \* the pair update_powerpoint_from_blob returns
    raised                  \* the exception that leaves the call, if any

\* The arguments of the call: no step assigns them.
inputVars ==
    << content, limits, slide_type, check_fit, catalog, dest_url, comments,
       cleanup_temp_files >>

\* What the layout resolution and the slide creation write.
slideVars == << layout_obj, new_slide >>

\* What the content distribution writes.
placeVars ==
    << lines, left_column_content, right_column_content, column_mode,
       content_added, textbox, notes >>

\* The temporary files and the paths held to them.
fileVars == << files, local_path, output_local_path, upload_error >>

\* What update_powerpoint_from_blob and update_powerpoint_file read and write.
updateVars ==
    << document, prs, slide_updates, update_index, file_exc, success, error,
       returned, raised >>

vars ==
    << pc, fit_result, font_size_info, exc, result_path, inputVars, slideVars,
       placeVars, fileVars, updateVars >>

None == {}

Some(v) == {v}

\* The value of a present optional.
The(o) == CHOOSE v \in o : TRUE

Min(a, b) == IF a < b THEN a ELSE b

-----------------------------------------------------------------------------
(* Python str operations, character by character.                          *)

NL == "\n"

BulletChar == "BULLET"

\* str.strip() and str.split() treat these as whitespace.
Whitespace == {" ", NL}

Digits == {"0", "1", "2", "3", "4", "5", "6", "7", "8", "9"}

LowerLetters ==
    << "a", "b", "c", "d", "e", "f", "g", "h", "i", "j", "k", "l", "m",
       "n", "o", "p", "q", "r", "s", "t", "u", "v", "w", "x", "y", "z" >>

UpperLetters ==
    << "A", "B", "C", "D", "E", "F", "G", "H", "I", "J", "K", "L", "M",
       "N", "O", "P", "Q", "R", "S", "T", "U", "V", "W", "X", "Y", "Z" >>

UpperChar(c) ==
    IF \E i \in 1..Len(LowerLetters) : LowerLetters[i] = c
    THEN UpperLetters[CHOOSE i \in 1..Len(LowerLetters) : LowerLetters[i] = c]
    ELSE c

LowerChar(c) ==
    IF \E i \in 1..Len(UpperLetters) : UpperLetters[i] = c
    THEN LowerLetters[CHOOSE i \in 1..Len(UpperLetters) : UpperLetters[i] = c]
    ELSE c

\* str.upper()
Upper(s) == [i \in 1..Len(s) |-> UpperChar(s[i])]

\* str.lower()
Lower(s) == [i \in 1..Len(s) |-> LowerChar(s[i])]

\* sub in s
Contains(s, sub) ==
    \E i \in 1..(Len(s) - Len(sub) + 1) : SubSeq(s, i, i + Len(sub) - 1) = sub

\* str.strip(): the leading and the trailing whitespace removed.
Strip(s) ==
    LET keep == {i \in 1..Len(s) : s[i] \notin Whitespace}
    IN  IF keep = {} THEN << >>
        ELSE SubSeq(s, CHOOSE i \in keep : \A j \in keep : i <= j,
                       CHOOSE i \in keep : \A j \in keep : j <= i)

\* len(s.split()): the number of whitespace-separated words.
Words(s) ==
    Cardinality({i \in 1..Len(s) :
        /\ s[i] \notin Whitespace
        /\ (i = 1 \/ s[i - 1] \in Whitespace)})

\* s.split('\n'): always at least one piece.
RECURSIVE Split(_)
Split(s) ==
    LET breaks == {i \in 1..Len(s) : s[i] = NL}
    IN  IF breaks = {} THEN << s >>
        ELSE LET b == CHOOSE i \in breaks : \A j \in breaks : i <= j
             IN  << SubSeq(s, 1, b - 1) >> \o Split(SubSeq(s, b + 1, Len(s)))

\* '\n'.join(ls)
RECURSIVE Join(_)
Join(ls) ==
    IF Len(ls) = 0 THEN << >>
    ELSE IF Len(ls) = 1 THEN ls[1]
    ELSE ls[1] \o << NL >> \o Join(Tail(ls))

LEFT_MARKER == << "L", "E", "F", "T", " ", "C", "O", "L", "U", "M", "N", ":" >>

RIGHT_MARKER ==
    << "R", "I", "G", "H", "T", " ", "C", "O", "L", "U", "M", "N", ":" >>

\* "LEFT COLUMN:" in line.upper()
IsLeftMarker(line) == Contains(Upper(line), LEFT_MARKER)

\* IsRightMarker without the upper(): lower-case markers are missed.
IsRightMarker_CaseSensitive(line) == Contains(line, RIGHT_MARKER)

\* "RIGHT COLUMN:" in line.upper()
IsRightMarker(line) == Contains(Upper(line), RIGHT_MARKER)

-----------------------------------------------------------------------------
(* check_content_fit                                                       *)

DEFAULT_MAX_TITLE_WORDS == 10

DEFAULT_MAX_LINES == 15

DEFAULT_MAX_BULLETS_PER_COLUMN == 8

DEFAULT_MAX_CHARS_PER_LINE == 80

DefaultLimits ==
    [max_title_words |-> DEFAULT_MAX_TITLE_WORDS,
     max_lines |-> DEFAULT_MAX_LINES,
     max_bullets_per_column |-> DEFAULT_MAX_BULLETS_PER_COLUMN,
     max_chars_per_line |-> DEFAULT_MAX_CHARS_PER_LINE]

NoFontSizes == [title |-> None, subtitle |-> None, body |-> None]

\* A warning message is kept as the rule that wrote it and the two numbers
\* formatted into it.
Warning(kind, n, limit) == [kind |-> kind, n |-> n, limit |-> limit]

\* is_bullet or is_numbered of a line already trimmed
IsBulletOrNumbered(line_trimmed) ==
    LET is_bullet ==
            /\ Len(line_trimmed) >= 1
            /\ line_trimmed[1] \in {"-", BulletChar}
        is_numbered ==
            /\ Len(line_trimmed) > 2
            /\ line_trimmed[1] \in Digits
            /\ line_trimmed[2] = "."
    IN  is_bullet \/ is_numbered

\* The loop that counts the bullets of each column, from line i on.
RECURSIVE CountBullets(_, _, _)
CountBullets(ls, i, st) ==
    IF i > Len(ls) THEN st
    ELSE IF IsLeftMarker(ls[i])
         THEN CountBullets(ls, i + 1,
                  [st EXCEPT !.in_left_column = TRUE, !.in_right_column = FALSE])
    ELSE IF IsRightMarker(ls[i])
         THEN CountBullets(ls, i + 1,
                  [st EXCEPT !.in_left_column = FALSE, !.in_right_column = TRUE])
    ELSE IF IsBulletOrNumbered(Strip(ls[i]))
         THEN IF st.in_right_column
              THEN CountBullets(ls, i + 1,
                       [st EXCEPT !.right_bullets = st.right_bullets + 1])
              ELSE CountBullets(ls, i + 1,
                       [st EXCEPT !.left_bullets = st.left_bullets + 1])
    ELSE CountBullets(ls, i + 1, st)

\* Each rule gives the warnings it appends, the score it adds and the font
\* sizes it leaves, from the font sizes the rules before it left.
TitleRule(ls, max_title_words, font) ==
    LET title_words == Words(ls[1])
    IN  IF title_words > max_title_words
        THEN [warnings |-> << Warning("title", title_words, max_title_words) >>,
              score |-> Min(25, (title_words - max_title_words) * 5),
              font |-> [font EXCEPT !.title =
                            IF title_words > max_title_words + 5
                            THEN Some(28) ELSE Some(32)]]
        ELSE [warnings |-> << >>, score |-> 0, font |-> font]

\* LongLinesRule with the comparison off by one: a line of exactly
\* max_chars_per_line characters counts as long.
LongLinesRule_OffByOne(ls, max_chars_per_line, font) ==
    LET long_lines ==
            Cardinality({i \in 1..Len(ls) : Len(ls[i]) >= max_chars_per_line})
    IN  IF long_lines > 0
        THEN [warnings |-> << Warning("long_lines", long_lines, max_chars_per_line) >>,
              score |-> Min(25, long_lines * 5),
              font |-> IF long_lines > 2
                       THEN [font EXCEPT !.body = Some(16)] ELSE font]
        ELSE [warnings |-> << >>, score |-> 0, font |-> font]

LongLinesRule(ls, max_chars_per_line, font) ==
    LET long_lines ==
            Cardinality({i \in 1..Len(ls) : Len(ls[i]) > max_chars_per_line})
    IN  IF long_lines > 0
        THEN [warnings |-> << Warning("long_lines", long_lines, max_chars_per_line) >>,
              score |-> Min(25, long_lines * 5),
              font |-> IF long_lines > 2
                       THEN [font EXCEPT !.body = Some(16)] ELSE font]
        ELSE [warnings |-> << >>, score |-> 0, font |-> font]

TotalBulletsRule(total_bullets, max_bullets_per_column, font) ==
    IF total_bullets > max_bullets_per_column * 2
    THEN [warnings |->
              << Warning("total_bullets", total_bullets, max_bullets_per_column) >>,
          score |-> Min(25, (total_bullets - max_bullets_per_column * 2) * 2),
          font |-> [font EXCEPT !.body =
                        IF total_bullets > max_bullets_per_column * 2 + 4
                        THEN Some(14) ELSE Some(16)]]
    ELSE [warnings |-> << >>, score |-> 0, font |-> font]

\* ColumnBulletsRule with the two-column branch as written and a
\* single-column branch that keeps a body font an earlier rule suggested.
ColumnBulletsRule_KeepsFont(st, max_bullets_per_column, font) ==
    LET total_bullets == st.left_bullets + st.right_bullets
    IN  IF total_bullets > max_bullets_per_column
           /\ ~(st.in_left_column /\ st.in_right_column)
        THEN [warnings |->
                  << Warning("single_column", total_bullets,
                             max_bullets_per_column) >>,
              score |-> Min(20, (total_bullets - max_bullets_per_column) * 2),
              font |-> IF font.body # None THEN font
                       ELSE [font EXCEPT !.body =
                                IF total_bullets > max_bullets_per_column + 4
                                THEN Some(14) ELSE Some(16)]]
        ELSE [warnings |-> << >>, score |-> 0, font |-> font]

ColumnBulletsRule(st, max_bullets_per_column, font) ==
    LET total_bullets == st.left_bullets + st.right_bullets
        max_column_bullets ==
            IF st.left_bullets > st.right_bullets
            THEN st.left_bullets ELSE st.right_bullets
        left_over == st.left_bullets > max_bullets_per_column
        right_over == st.right_bullets > max_bullets_per_column
    IN  IF st.in_left_column /\ st.in_right_column
        THEN [warnings |->
                  (IF left_over
                   THEN << Warning("left_column", st.left_bullets,
                                   max_bullets_per_column) >>
                   ELSE << >>)
                  \o (IF right_over
                      THEN << Warning("right_column", st.right_bullets,
                                      max_bullets_per_column) >>
                      ELSE << >>),
              score |->
                  (IF left_over
                   THEN Min(15, (st.left_bullets - max_bullets_per_column) * 2)
                   ELSE 0)
                  + (IF right_over
                     THEN Min(15, (st.right_bullets - max_bullets_per_column) * 2)
                     ELSE 0),
              font |->
                  IF max_column_bullets > max_bullets_per_column + 4
                  THEN [font EXCEPT !.body = Some(14)]
                  ELSE IF max_column_bullets > max_bullets_per_column
                  THEN [font EXCEPT !.body = Some(16)]
                  ELSE font]
        ELSE IF total_bullets > max_bullets_per_column
        THEN [warnings |->
                  << Warning("single_column", total_bullets,
                             max_bullets_per_column) >>,
              score |-> Min(20, (total_bullets - max_bullets_per_column) * 2),
              font |-> [font EXCEPT !.body =
                            IF total_bullets > max_bullets_per_column + 4
                            THEN Some(14) ELSE Some(16)]]
        ELSE [warnings |-> << >>, score |-> 0, font |-> font]

TotalLinesRule(total_lines, max_lines, font) ==
    IF total_lines > max_lines
    THEN [warnings |-> << Warning("total_lines", total_lines, max_lines) >>,
          score |-> Min(25, (total_lines - max_lines) * 2),
          font |-> IF total_lines > max_lines + 5
                   THEN [font EXCEPT !.subtitle = Some(20)] ELSE font]
    ELSE [warnings |-> << >>, score |-> 0, font |-> font]

\* Clamp with the clamp forgotten.
Clamp_Forgotten(complexity_score) == complexity_score

\* result['content_complexity'] = min(100, complexity_score)
Clamp(complexity_score) == Min(100, complexity_score)

\* The early return for empty content: the warning is appended, 'fits' is
\* left as it was initialised.
EmptyContentResult ==
    [fits |-> TRUE,
     warnings |-> << Warning("empty", 0, 0) >>,
     suggested_font_size |-> NoFontSizes,
     content_complexity |-> 0]

\* Line 89: the lines of the content trimmed.
StrippedLines(c) == Split(Strip(c))

\* result['fits'] from the warnings collected
FitsOf(warnings) == warnings = << >>

check_content_fit(c, max_title_words, max_lines, max_bullets_per_column, max_chars_per_line) ==
    LET ls == Split(Strip(c))
        total_lines == Len(ls)
        r1 == TitleRule(ls, max_title_words, NoFontSizes)
        r2 == LongLinesRule(ls, max_chars_per_line, r1.font)
        st == CountBullets(ls, 1,
                  [left_bullets |-> 0, right_bullets |-> 0,
                   in_left_column |-> FALSE, in_right_column |-> FALSE])
        r3 == TotalBulletsRule(st.left_bullets + st.right_bullets,
                               max_bullets_per_column, r2.font)
        r4 == ColumnBulletsRule(st, max_bullets_per_column, r3.font)
        r5 == TotalLinesRule(total_lines, max_lines, r4.font)
        warnings == r1.warnings \o r2.warnings \o r3.warnings \o r4.warnings
                    \o r5.warnings
    IN  IF Strip(c) = << >> THEN EmptyContentResult
        ELSE [fits |-> FitsOf(warnings),
              warnings |-> warnings,
              suggested_font_size |-> r5.font,
              content_complexity |->
                  Clamp(r1.score + r2.score + r3.score + r4.score + r5.score)]

-----------------------------------------------------------------------------
(* The call of check_content_fit as a function of its arguments.           *)

CheckContentFit ==
    /\ pc = "fit_call"
    /\ fit_result' = Some(check_content_fit(content, limits.max_title_words,
                              limits.max_lines, limits.max_bullets_per_column,
                              limits.max_chars_per_line))
    /\ pc' = "fit_return"
    /\ UNCHANGED << updateVars, font_size_info, exc, result_path, inputVars, slideVars,
                    placeVars, fileVars >>

-----------------------------------------------------------------------------
(* add_slide_from_blob_url, one action per stage of its body.              *)

\* if x: of a str or None
Truthy(o) == o # None /\ The(o) # << >>

\* The temporary files the call creates.
SRC_TEMP == "source_temp"

DOWNLOAD_TEMP == "download_temp"

OUTPUT_TEMP == "output_temp"

\* font_size_info.get(key) is not None, and the text assigned left a run to
\* set the size on: a paragraph of no characters has no run.
FontApplied(key, text) ==
    IF /\ check_fit
       /\ font_size_info # None
       /\ The(font_size_info)[key] # None
       /\ \E i \in 1..Len(text) : text[i] # NL
    THEN The(font_size_info)[key]
    ELSE None

\* The indices of the shapes of the placeholder types given, in shape order.
RECURSIVE PlaceholdersOfType(_, _, _)
PlaceholdersOfType(shapes, types, i) ==
    IF i > Len(shapes) THEN << >>
    ELSE (IF shapes[i].type \in types THEN << i >> ELSE << >>)
         \o PlaceholdersOfType(shapes, types, i + 1)

TITLE_TYPES == {1}

SUBTITLE_TYPES == {2}

content_placeholder_types == {3, 7}

\* Lines 304-323: the fit check, and the font sizes kept when it warns.
FitStep ==
    /\ pc = "start"
    /\ IF check_fit
       THEN LET r == check_content_fit(content, DEFAULT_MAX_TITLE_WORDS,
                         DEFAULT_MAX_LINES, DEFAULT_MAX_BULLETS_PER_COLUMN,
                         DEFAULT_MAX_CHARS_PER_LINE)
            IN  /\ fit_result' = Some(r)
                /\ font_size_info' =
                       IF ~r.fits THEN Some(r.suggested_font_size) ELSE None
       ELSE UNCHANGED << fit_result, font_size_info >>
    /\ pc' = "download"
    /\ UNCHANGED << updateVars, exc, result_path, inputVars, slideVars, placeVars, fileVars >>

\* Lines 325-351: a first temporary file is made and its name dropped for the
\* one download_pptx_to_temp makes (client.py:58); the download gives no
\* bytes, or a file Presentation cannot open, or a presentation.
Download ==
    /\ pc = "download"
    /\ \E outcome \in {"ok", "no_bytes", "not_a_presentation"} :
        /\ files' = files \cup {SRC_TEMP, DOWNLOAD_TEMP}
        /\ local_path' = IF outcome = "no_bytes" THEN None ELSE Some(DOWNLOAD_TEMP)
        /\ exc' = IF outcome = "ok" THEN None ELSE Some(outcome)
        /\ pc' = IF outcome = "ok" THEN "resolve" ELSE "except"
    /\ UNCHANGED << updateVars, fit_result, font_size_info, result_path, inputVars,
                    slideVars, placeVars, output_local_path, upload_error >>

\* for master in presentation.slide_masters: for layout in
\* master.slide_layouts: the places (master, layout) in the order visited,
\* from place (m, l) on.
RECURSIVE LayoutOrder(_, _, _)
LayoutOrder(cat, m, l) ==
    IF m > Len(cat) THEN << >>
    ELSE IF l > Len(cat[m]) THEN LayoutOrder(cat, m + 1, 1)
    ELSE << << m, l >> >> \o LayoutOrder(cat, m, l + 1)

\* The loops break at the first layout found: the first of the places hit.
FirstHit(order, hits) ==
    IF hits = {} THEN None
    ELSE Some(order[CHOOSE i \in hits : \A j \in hits : i <= j])

\* Lines 370-377: the exact match.
ExactMatch(cat, selected_layout_name) ==
    LET order == LayoutOrder(cat, 1, 1)
    IN  FirstHit(order,
            {i \in 1..Len(order) :
                cat[order[i][1]][order[i][2]].name = selected_layout_name})

\* Lines 380-389: the case-insensitive match.
CaseInsensitiveMatch(cat, selected_layout_name) ==
    LET order == LayoutOrder(cat, 1, 1)
        selected_layout_lower == Lower(selected_layout_name)
    IN  FirstHit(order,
            {i \in 1..Len(order) :
                Lower(cat[order[i][1]][order[i][2]].name) = selected_layout_lower})

\* DefaultLayout taking the first layout of the last master.
DefaultLayout_LastMaster(cat) == Some(<< Len(cat), 1 >>)

\* Line 394: presentation.slide_layouts[0], the layouts of the first master.
DefaultLayout(cat) == Some(<< 1, 1 >>)

\* ResolveLayout with the two passes merged into a case-insensitive one.
ResolveLayout_OnePass(cat, selected_layout_name) ==
    LET insensitive == CaseInsensitiveMatch(cat, selected_layout_name)
    IN  IF insensitive # None THEN insensitive ELSE DefaultLayout(cat)

\* Lines 367-394, for a slide_type given.
ResolveLayout(cat, selected_layout_name) ==
    LET exact == ExactMatch(cat, selected_layout_name)
        insensitive == CaseInsensitiveMatch(cat, selected_layout_name)
    IN  IF exact # None THEN exact
        ELSE IF insensitive # None THEN insensitive
        ELSE DefaultLayout(cat)

\* Lines 353-394: with no slide_type the name selected_layout_name is read at
\* line 365 before any assignment (line 364 is commented out), which raises
\* UnboundLocalError.
Resolve ==
    /\ pc = "resolve"
    /\ IF Truthy(slide_type)
       THEN /\ layout_obj' = ResolveLayout(catalog, The(slide_type))
            /\ pc' = "add_slide"
            /\ UNCHANGED exc
       ELSE /\ exc' = Some("UnboundLocalError")
            /\ pc' = "except"
            /\ UNCHANGED layout_obj
    /\ UNCHANGED << updateVars, fit_result, font_size_info, result_path, inputVars,
                    new_slide, placeVars, fileVars >>

\* Lines 397-416: the slide is added with the placeholders of its layout, and
\* the content is split into lines.
AddSlide ==
    /\ pc = "add_slide"
    /\ LET at == The(layout_obj)
           layout == catalog[at[1]][at[2]]
       IN  new_slide' =
               Some([layout |-> at,
                     shapes |-> [i \in 1..Len(layout.placeholders) |->
                                    [type |-> layout.placeholders[i],
                                     text |-> None, font |-> None]]])
    /\ lines' = Split(content)
    /\ content_added' = FALSE
    /\ pc' = "title"
    /\ UNCHANGED << updateVars, fit_result, font_size_info, exc, result_path, inputVars,
                    layout_obj, left_column_content, right_column_content,
                    column_mode, textbox, notes, fileVars >>

\* shape.text = text, then the font size of the hint on its runs.
WriteShape(slide, i, text, key) ==
    [slide EXCEPT !.shapes[i] =
        [@ EXCEPT !.text = Some(text), !.font = FontApplied(key, text)]]

\* Lines 418-432.
Title ==
    /\ pc = "title"
    /\ LET slide == The(new_slide)
           title_placeholders == PlaceholdersOfType(slide.shapes, TITLE_TYPES, 1)
       IN  IF title_placeholders # << >> /\ lines # << >>
           THEN /\ new_slide' =
                       Some(WriteShape(slide, title_placeholders[1], lines[1], "title"))
                /\ lines' = Tail(lines)
           ELSE UNCHANGED << new_slide, lines >>
    /\ pc' = "subtitle"
    /\ UNCHANGED << updateVars, fit_result, font_size_info, exc, result_path, inputVars,
                    layout_obj, left_column_content, right_column_content,
                    column_mode, content_added, textbox, notes, fileVars >>

\* The subtitle test were a line of fifty characters short too.
SubtitleFits_Inclusive(line) == Len(Strip(line)) <= 50

\* Line 436: only short lines are used for subtitles.
SubtitleFits(line) == Len(Strip(line)) < 50

\* Lines 434-447.
Subtitle ==
    /\ pc = "subtitle"
    /\ LET slide == The(new_slide)
           subtitle_placeholders ==
               PlaceholdersOfType(slide.shapes, SUBTITLE_TYPES, 1)
       IN  IF /\ subtitle_placeholders # << >>
              /\ lines # << >>
              /\ SubtitleFits(lines[1])
           THEN /\ new_slide' =
                       Some(WriteShape(slide, subtitle_placeholders[1], lines[1],
                                       "subtitle"))
                /\ lines' = Tail(lines)
           ELSE UNCHANGED << new_slide, lines >>
    /\ pc' = "columns"
    /\ UNCHANGED << updateVars, fit_result, font_size_info, exc, result_path, inputVars,
                    layout_obj, left_column_content, right_column_content,
                    column_mode, content_added, textbox, notes, fileVars >>

\* The loop of lines 469-486 were the lines ahead of the first marker left
\* out of both sides.
RECURSIVE SplitColumns_DropsUnmarked(_, _, _)
SplitColumns_DropsUnmarked(ls, i, st) ==
    IF i > Len(ls) THEN st
    ELSE IF IsLeftMarker(ls[i])
         THEN SplitColumns_DropsUnmarked(ls, i + 1,
                  [st EXCEPT !.column_mode = TRUE, !.current_column = "left"])
    ELSE IF IsRightMarker(ls[i])
         THEN SplitColumns_DropsUnmarked(ls, i + 1,
                  [st EXCEPT !.column_mode = TRUE, !.current_column = "right"])
    ELSE IF ~st.column_mode
         THEN SplitColumns_DropsUnmarked(ls, i + 1, st)
    ELSE IF st.current_column # "left"
         THEN SplitColumns_DropsUnmarked(ls, i + 1,
                  [st EXCEPT !.right = Append(st.right, ls[i])])
    ELSE SplitColumns_DropsUnmarked(ls, i + 1,
             [st EXCEPT !.left = Append(st.left, ls[i])])

\* Lines 469-486: the loop over the remaining lines, from line i on.
RECURSIVE SplitColumns(_, _, _)
SplitColumns(ls, i, st) ==
    IF i > Len(ls) THEN st
    ELSE IF IsLeftMarker(ls[i])
         THEN SplitColumns(ls, i + 1,
                  [st EXCEPT !.column_mode = TRUE, !.current_column = "left"])
    ELSE IF IsRightMarker(ls[i])
         THEN SplitColumns(ls, i + 1,
                  [st EXCEPT !.column_mode = TRUE, !.current_column = "right"])
    ELSE IF st.column_mode /\ st.current_column # "left"
         THEN SplitColumns(ls, i + 1,
                  [st EXCEPT !.right = Append(st.right, ls[i])])
    ELSE SplitColumns(ls, i + 1, [st EXCEPT !.left = Append(st.left, ls[i])])

\* Lines 461-486.
Columns ==
    /\ pc = "columns"
    /\ LET st == SplitColumns(lines, 1,
                     [left |-> << >>, right |-> << >>, column_mode |-> FALSE,
                      current_column |-> "left"])
       IN  /\ left_column_content' = st.left
           /\ right_column_content' = st.right
           /\ column_mode' = st.column_mode
    /\ pc' = "body"
    /\ UNCHANGED << updateVars, fit_result, font_size_info, exc, result_path, inputVars,
                    slideVars, lines, content_added, textbox, notes, fileVars >>

\* The halves were the midpoint rounded up.
SplitInHalf_RoundsUp(ls) ==
    LET middle == (Len(ls) + 1) \div 2
    IN  [left |-> SubSeq(ls, 1, middle), right |-> SubSeq(ls, middle + 1, Len(ls))]

\* Lines 499-501: the halves of the lines when no column was marked.
SplitInHalf(ls) ==
    LET middle == Len(ls) \div 2
    IN  [left |-> SubSeq(ls, 1, middle), right |-> SubSeq(ls, middle + 1, Len(ls))]

\* Line 513: what the first content placeholder is given when the layout is
\* not a two-column one.
SingleBodyText(left, right) == Join(left)

\* Lines 488-516.
Body ==
    /\ pc = "body"
    /\ LET slide == The(new_slide)
           content_placeholders ==
               PlaceholdersOfType(slide.shapes, content_placeholder_types, 1)
           halves == SplitInHalf(left_column_content)
       IN  IF Len(content_placeholders) = 2 /\ column_mode
           THEN /\ new_slide' =
                       Some(WriteShape(
                           WriteShape(slide, content_placeholders[1],
                                      Join(left_column_content), "body"),
                           content_placeholders[2],
                           Join(right_column_content), "body"))
                /\ content_added' = TRUE
                /\ UNCHANGED << left_column_content, right_column_content >>
           ELSE IF Len(content_placeholders) = 2 /\ ~column_mode
           THEN /\ right_column_content' = halves.right
                /\ left_column_content' = halves.left
                /\ new_slide' =
                       Some(WriteShape(
                           WriteShape(slide, content_placeholders[1],
                                      Join(halves.left), "body"),
                           content_placeholders[2], Join(halves.right), "body"))
                /\ content_added' = TRUE
           ELSE IF content_placeholders # << >> /\ ~content_added
           THEN /\ new_slide' =
                       Some(WriteShape(slide, content_placeholders[1],
                                SingleBodyText(left_column_content,
                                               right_column_content), "body"))
                /\ content_added' = TRUE
                /\ UNCHANGED << left_column_content, right_column_content >>
           ELSE UNCHANGED << new_slide, content_added, left_column_content,
                             right_column_content >>
    /\ pc' = "textbox"
    /\ UNCHANGED << updateVars, fit_result, font_size_info, exc, result_path, inputVars,
                    layout_obj, lines, column_mode, textbox, notes, fileVars >>

\* The text box were given the left-side lines only.
TextBox_LeftOnly ==
    /\ pc = "textbox"
    /\ textbox' =
           IF /\ ~content_added
              /\ (left_column_content # << >> \/ right_column_content # << >>)
           THEN Some([text |-> Join(left_column_content),
                      font |-> FontApplied("body", Join(left_column_content))])
           ELSE None
    /\ notes' = IF Truthy(comments) THEN comments ELSE None
    /\ pc' = "save"
    /\ UNCHANGED << updateVars, fit_result, font_size_info, exc, result_path, inputVars,
                    slideVars, lines, left_column_content, right_column_content,
                    column_mode, content_added, fileVars >>

\* Lines 518-542: the text box when no placeholder took the content, then the
\* presenter comments.
TextBox ==
    /\ pc = "textbox"
    /\ LET all_content == left_column_content \o right_column_content
       IN  textbox' =
               IF /\ ~content_added
                  /\ (left_column_content # << >> \/ right_column_content # << >>)
               THEN Some([text |-> Join(all_content),
                          font |-> FontApplied("body", Join(all_content))])
               ELSE None
    /\ notes' = IF Truthy(comments) THEN comments ELSE None
    /\ pc' = "save"
    /\ UNCHANGED << updateVars, fit_result, font_size_info, exc, result_path, inputVars,
                    slideVars, lines, left_column_content, right_column_content,
                    column_mode, content_added, fileVars >>

\* urlparse(url).netloc: what follows the "//" that comes first or right
\* after the scheme's colon, up to the next "/", "?" or "#".
Netloc(url) ==
    LET colons == {i \in 1..Len(url) : url[i] = ":"}
        start == IF colons = {} THEN 1
                 ELSE 1 + CHOOSE i \in colons : \A j \in colons : i <= j
        rest == SubSeq(url, start, Len(url))
        stops == {i \in 3..Len(rest) : rest[i] \in {"/", "?", "#"}}
        stop == IF stops = {} THEN Len(rest) + 1
                ELSE CHOOSE i \in stops : \A j \in stops : i <= j
    IN  IF Len(rest) >= 2 /\ rest[1] = "/" /\ rest[2] = "/"
        THEN SubSeq(rest, 3, stop - 1)
        ELSE << >>

\* Lines 544-578: the output file is made and written, then uploaded when a
\* destination is given; a failed upload is caught at line 570 and the local
\* path is returned.
Save ==
    /\ pc = "save"
    /\ output_local_path' = Some(OUTPUT_TEMP)
    /\ files' = files \cup {OUTPUT_TEMP}
    /\ \E save_ok \in BOOLEAN, upload_ok \in BOOLEAN :
        IF ~save_ok
        THEN /\ exc' = Some("save_failed")
             /\ pc' = "except"
             /\ UNCHANGED << result_path, upload_error >>
        ELSE /\ upload_error' =
                    IF ~Truthy(dest_url) THEN None
                    ELSE IF Netloc(The(dest_url)) = << >> THEN Some("ValueError")
                    ELSE IF ~upload_ok THEN Some("upload_failed")
                    ELSE None
             /\ result_path' =
                    IF Truthy(dest_url) /\ Netloc(The(dest_url)) # << >> /\ upload_ok
                    THEN Some([kind |-> "url", at |-> The(dest_url)])
                    ELSE Some([kind |-> "file", at |-> OUTPUT_TEMP])
             /\ pc' = "finally"
             /\ UNCHANGED exc
    /\ UNCHANGED << updateVars, fit_result, font_size_info, inputVars, slideVars, placeVars,
                    local_path >>

\* Lines 580-584.
Except ==
    /\ pc = "except"
    /\ result_path' = None
    /\ pc' = "finally"
    /\ UNCHANGED << updateVars, fit_result, font_size_info, exc, inputVars, slideVars,
                    placeVars, fileVars >>

\* Lines 586-602.
Finally ==
    /\ pc = "finally"
    /\ files' =
           IF cleanup_temp_files
           THEN (files \ local_path)
                \ (IF Truthy(dest_url) THEN output_local_path ELSE {})
           ELSE files
    /\ pc' = "done"
    /\ UNCHANGED << updateVars, fit_result, font_size_info, exc, result_path, inputVars,
                    slideVars, placeVars, local_path, output_local_path,
                    upload_error >>

NextAddSlide ==
    \/ FitStep
    \/ Download
    \/ Resolve
    \/ AddSlide
    \/ Title
    \/ Subtitle
    \/ Columns
    \/ Body
    \/ TextBox
    \/ Save
    \/ Except
    \/ Finally

-----------------------------------------------------------------------------
(* update_powerpoint_from_blob and update_powerpoint_file.  A presentation  *)
(* is the sequence of its slides, a slide the sequence of its shapes, a     *)
(* shape a record of its placeholder index (None for a shape without         *)
(* placeholder_format), its text and the font size set on its runs.  A      *)
(* dict key that is missing reads as None, as dict.get gives it.            *)

\* What the variables of add_slide_from_blob_url are left at by the update.
addSlideVars ==
    << fit_result, font_size_info, exc, result_path, inputVars, slideVars,
       placeVars, output_local_path, upload_error >>

\* Lines 704-710: the place of the first shape of the slide whose placeholder
\* index is idx, 0 when the loop ends with shape = None.
FindShape(slide, idx) ==
    LET hits == {k \in 1..Len(slide) : slide[k].idx = Some(idx)}
    IN  IF hits = {} THEN 0 ELSE CHOOSE k \in hits : \A j \in hits : k <= j

\* The update were applied with the empty text when it has no text.
ApplyPlaceholderUpdate_EmptyForMissing(slide, placeholder_update) ==
    LET idx == placeholder_update.placeholder_idx
        new_text == placeholder_update.text
        shape == FindShape(slide, The(idx))
    IN  IF idx = None THEN slide
        ELSE IF shape = 0 THEN slide
        ELSE [slide EXCEPT ![shape] =
                 [@ EXCEPT !.text = IF new_text = None THEN << >> ELSE The(new_text),
                           !.font = None]]

\* Lines 694-720: one placeholder update on a slide.  Assigning shape.text
\* replaces the runs, so the size is the one line 720 sets, if any.
ApplyPlaceholderUpdate(slide, placeholder_update) ==
    LET idx == placeholder_update.placeholder_idx
        new_text == placeholder_update.text
        font_size == placeholder_update.font_size
        shape == FindShape(slide, The(idx))
    IN  IF idx = None \/ new_text = None THEN slide
        ELSE IF shape = 0 THEN slide
        ELSE [slide EXCEPT ![shape] =
                 [@ EXCEPT !.text = The(new_text),
                           !.font = IF /\ font_size # None
                                       /\ The(font_size) # 0
                                       /\ The(new_text) # << >>
                                    THEN font_size ELSE None]]

\* Lines 693-720: the loop over the placeholder updates, from update j on.
RECURSIVE ApplyPlaceholderUpdates(_, _, _)
ApplyPlaceholderUpdates(slide, updates, j) ==
    IF j > Len(updates) THEN slide
    ELSE ApplyPlaceholderUpdates(ApplyPlaceholderUpdate(slide, updates[j]),
                                 updates, j + 1)

\* Lines 678-720: one instruction of slide_updates on the presentation.
ApplyInstruction(presentation, update) ==
    LET slide_index == update.slide_index
        updates == IF update.updates = None THEN << >> ELSE The(update.updates)
    IN  IF slide_index = None THEN presentation
        ELSE IF The(slide_index) < 0 \/ The(slide_index) >= Len(presentation)
             THEN presentation
        ELSE [presentation EXCEPT ![The(slide_index) + 1] =
                 ApplyPlaceholderUpdates(@, updates, 1)]

\* Python's test of a tuple: only the empty tuple is false.
TupleTruthy(t) == Len(t) > 0

\* What await accepts: cleanup_temp_file (client.py:115) is a plain function
\* and its call gives None, which is no awaitable.
Awaitable(value) == value # None

\* Lines 626-631 and client.py:39-77: the temporary file is made, then the
\* bytes are fetched or not.
UpdateDownload ==
    /\ pc = "update_start"
    /\ files' = files \cup {DOWNLOAD_TEMP}
    /\ \E fetched \in BOOLEAN :
        IF fetched
        THEN /\ local_path' = Some(DOWNLOAD_TEMP)
             /\ error' = None
             /\ pc' = "open"
             /\ UNCHANGED returned
        ELSE /\ local_path' = None
             /\ error' = Some("Failed to download PowerPoint file")
             /\ returned' = Some(<< FALSE, "Error downloading file" >>)
             /\ pc' = "update_finally"
    /\ UNCHANGED << addSlideVars, document, prs, slide_updates, update_index,
                    file_exc, success, raised >>

\* Lines 671-674 and 726-730: Presentation(file_path) opens the file or raises.
OpenFile ==
    /\ pc = "open"
    /\ \E opens \in BOOLEAN :
        IF opens
        THEN /\ prs' = Some(document)
             /\ update_index' = 1
             /\ pc' = "apply"
             /\ UNCHANGED << file_exc, success >>
        ELSE /\ file_exc' = Some("open")
             /\ success' = Some(FALSE)
             /\ pc' = "file_return"
             /\ UNCHANGED << prs, update_index >>
    /\ UNCHANGED << addSlideVars, files, local_path, document, slide_updates,
                    error, returned, raised >>

\* Lines 677-720: one turn of the loop over slide_updates.
ApplyUpdate ==
    /\ pc = "apply"
    /\ update_index <= Len(slide_updates)
    /\ prs' = Some(ApplyInstruction(The(prs), slide_updates[update_index]))
    /\ update_index' = update_index + 1
    /\ UNCHANGED << pc, addSlideVars, files, local_path, document,
                    slide_updates, file_exc, success, error, returned, raised >>

\* Lines 722-730: prs.save(file_path) writes the file or raises.
SaveFile ==
    /\ pc = "apply"
    /\ update_index > Len(slide_updates)
    /\ \E saved \in BOOLEAN :
        IF saved
        THEN /\ document' = The(prs)
             /\ success' = Some(TRUE)
             /\ UNCHANGED file_exc
        ELSE /\ file_exc' = Some("save")
             /\ success' = Some(FALSE)
             /\ UNCHANGED document
    /\ pc' = "file_return"
    /\ UNCHANGED << addSlideVars, files, local_path, prs, slide_updates,
                    update_index, error, returned, raised >>

\* Lines 634-636.
FileReturn ==
    /\ pc = "file_return"
    /\ IF success = Some(FALSE)
       THEN /\ returned' = Some(<< FALSE, "Failed to update PowerPoint file" >>)
            /\ pc' = "update_finally"
       ELSE /\ pc' = "upload"
            /\ UNCHANGED returned
    /\ UNCHANGED << addSlideVars, files, local_path, document, prs,
                    slide_updates, update_index, file_exc, success, error, raised >>

\* Lines 640-647 and client.py:79-113: upload_pptx_to_blob returns the pair
\* (success, error_message), and line 643 tests the pair.
Upload ==
    /\ pc = "upload"
    /\ \E upload_ok \in BOOLEAN :
        LET result == IF Netloc(The(dest_url)) = << >>
                      THEN << FALSE, Some("Invalid destination URL") >>
                      ELSE IF upload_ok THEN << TRUE, None >>
                      ELSE << FALSE, Some("Azure storage error") >>
        IN  /\ error' = Some(result)
            /\ returned' = IF TupleTruthy(result)
                           THEN Some(<< FALSE, "Error uploading file" >>)
                           ELSE Some(<< TRUE, "" >>)
    /\ pc' = "update_finally"
    /\ UNCHANGED << addSlideVars, files, local_path, document, prs,
                    slide_updates, update_index, file_exc, success, raised >>

\* Lines 657-659 and client.py:115-127: cleanup_temp_file removes the file,
\* then its result is awaited.
UpdateFinally ==
    /\ pc = "update_finally"
    /\ files' = files \ local_path
    /\ LET cleaned == None
       IN  raised' = IF Awaitable(cleaned) THEN None ELSE Some("TypeError")
    /\ pc' = "update_done"
    /\ UNCHANGED << addSlideVars, local_path, document, prs, slide_updates,
                    update_index, file_exc, success, error, returned >>

NextUpdate ==
    \/ UpdateDownload
    \/ OpenFile
    \/ ApplyUpdate
    \/ SaveFile
    \/ FileReturn
    \/ Upload
    \/ UpdateFinally

-----------------------------------------------------------------------------
(* The inputs the specifications draw.                                     *)

\* The sequences of 1 to n elements of S.
SeqsUpTo(S, n) == UNION {[1..k -> S] : k \in 1..n}

\* The line repeated n times.
Repeat(line, n) == [i \in 1..n |-> line]

LOWER_RIGHT_MARKER == Lower(RIGHT_MARKER)

MaxFitLines == 3

\* The lines of the contents check_content_fit is given: empty, blank, one
\* and two words, a bullet, a numbered item, the two markers.
FitLines ==
    { << >>, << " " >>, << "x" >>, << "x", " ", "x" >>, << "-", "x" >>,
      << "1", ".", "x" >>, LEFT_MARKER, LOWER_RIGHT_MARKER }

\* Larger contents: twenty bullets; a seven word title; a five word title
\* over thirteen bullets; two marked columns of two bullets and one; nine
\* bullets in the left column and one in the right.
ScenarioContents ==
    { Join(Repeat(<< "-", "x" >>, 20)),
      << "x", " ", "x", " ", "x", " ", "x", " ", "x", " ", "x", " ", "x" >>,
      Join(<< << "x", " ", "x", " ", "x", " ", "x", " ", "x" >> >>
           \o Repeat(<< "-", "x", " ", "x" >>, 13)),
      Join(<< LEFT_MARKER, << "-", " ", "a" >>, << "-", " ", "b" >>,
              RIGHT_MARKER, << "-", " ", "c" >> >>),
      Join(<< LEFT_MARKER >> \o Repeat(<< BulletChar, "x" >>, 9)
           \o << RIGHT_MARKER, << "2", ".", "x" >> >>) }

FitContents ==
    {Join(ls) : ls \in SeqsUpTo(FitLines, MaxFitLines)} \cup ScenarioContents

FitLimits ==
    [max_title_words : {0, 1}, max_lines : {1, 2},
     max_bullets_per_column : {0, 1}, max_chars_per_line : {2, 12}]
    \cup {DefaultLimits}

\* The variables a specification does not use.
Idle ==
    /\ fit_result = None
    /\ font_size_info = None
    /\ exc = None
    /\ result_path = None
    /\ layout_obj = None
    /\ new_slide = None
    /\ lines = << >>
    /\ left_column_content = << >>
    /\ right_column_content = << >>
    /\ column_mode = FALSE
    /\ content_added = FALSE
    /\ textbox = None
    /\ notes = None
    /\ files = {}
    /\ local_path = None
    /\ output_local_path = None
    /\ upload_error = None

\* No update call runs.
NoUpdate ==
    /\ document = << >>
    /\ prs = None
    /\ slide_updates = << >>
    /\ update_index = 0
    /\ file_exc = None
    /\ success = None
    /\ error = None
    /\ returned = None
    /\ raised = None

InitFit ==
    /\ pc = "fit_call"
    /\ content \in FitContents
    /\ limits \in FitLimits
    /\ slide_type = None
    /\ check_fit = TRUE
    /\ catalog = << >>
    /\ dest_url = None
    /\ comments = None
    /\ cleanup_temp_files = TRUE
    /\ Idle
    /\ NoUpdate

NextFit == CheckContentFit

SpecFit == InitFit /\ [][NextFit]_vars

\* Layout names: three that differ in case only, and another.
LayoutNames == { << "A", "b" >>, << "a", "b" >>, << "A", "B" >> }

RequestedNames == LayoutNames \cup { << "Z" >>, << "a", "B" >> }

MaxCatalogLayouts == 3

\* The ways to cut n layouts into consecutive non-empty masters: each is the
\* sequence of the masters' sizes.
RECURSIVE Cuts(_)
Cuts(n) ==
    IF n = 0 THEN { << >> }
    ELSE UNION {{<< k >> \o rest : rest \in Cuts(n - k)} : k \in 1..n}

\* The masters of the sizes given, filled from the layouts in order.
RECURSIVE Masters(_, _)
Masters(layouts, sizes) ==
    IF sizes = << >> THEN << >>
    ELSE << SubSeq(layouts, 1, sizes[1]) >>
         \o Masters(SubSeq(layouts, sizes[1] + 1, Len(layouts)), Tail(sizes))

\* Every master has a layout: python-pptx's slide_layouts[0] is then the
\* first layout of the first master.
ResolveCatalogs ==
    UNION {{Masters([i \in 1..Len(names) |->
                        [name |-> names[i], placeholders |-> << 1, 3 >>]], sizes) :
               sizes \in Cuts(Len(names))} :
           names \in SeqsUpTo(LayoutNames, MaxCatalogLayouts)}

TWO_LINES == << "x", NL, "y" >>

InitResolve ==
    /\ pc = "start"
    /\ content = TWO_LINES
    /\ limits = DefaultLimits
    /\ slide_type \in {None, Some(<< >>)} \cup {Some(n) : n \in RequestedNames}
    /\ check_fit \in BOOLEAN
    /\ catalog \in ResolveCatalogs
    /\ dest_url = None
    /\ comments \in {None, Some(<< "n" >>)}
    /\ cleanup_temp_files = TRUE
    /\ Idle
    /\ NoUpdate

SpecResolve == InitResolve /\ [][NextAddSlide]_vars

MaxPlaceLines == 4

\* The lines of the contents placed: empty, two words apart, the markers.
PlaceLines == { << >>, << "x" >>, << "y" >>, LEFT_MARKER, LOWER_RIGHT_MARKER }

PlaceContents == {Join(ls) : ls \in SeqsUpTo(PlaceLines, MaxPlaceLines)}

\* The placeholder types of the layouts placed on, in shape order.
PlaceLayouts ==
    { << >>, << 3 >>, << 1, 3 >>, << 1, 2, 3 >>, << 3, 7 >>, << 1, 3, 7 >>,
      << 3, 7, 3 >>, << 13, 2 >> }

\* Contents placed besides: two marked columns of two bullets and one; a
\* title, a short subtitle and two points; a second and a first line of fifty
\* characters, and of forty-nine between two spaces; a title of eleven words
\* under a blank line.
PlaceScenarios ==
    { Join(<< LEFT_MARKER, << "-", " ", "a" >>, << "-", " ", "b" >>,
              RIGHT_MARKER, << "-", " ", "c" >> >>),
      Join(<< << "M", "y", " ", "T", "i", "t", "l", "e" >>,
              << "S", "h", "o", "r", "t", " ", "s", "u", "b", "t", "i", "t",
                 "l", "e" >>,
              << "-", " ", "p", "o", "i", "n", "t", " ", "o", "n", "e" >>,
              << "-", " ", "p", "o", "i", "n", "t", " ", "t", "w", "o" >> >>),
      Join(<< << "x" >>, Repeat("z", 50), << "y" >> >>),
      Join(<< << "x" >>, << " " >> \o Repeat("z", 49) \o << " " >>, << "y" >> >>),
      Join(<< Repeat("z", 50), << "y" >> >>),
      Join(<< << " " >> \o Repeat("z", 49) \o << " " >>, << "y" >> >>),
      Join(<< << >>,
              << "x", " ", "x", " ", "x", " ", "x", " ", "x", " ", "x", " ",
                 "x", " ", "x", " ", "x", " ", "x", " ", "x" >> >>) }

InitPlace ==
    /\ pc = "start"
    /\ content \in PlaceContents \cup PlaceScenarios
    /\ limits = DefaultLimits
    /\ slide_type \in {None, Some(<< "A", "b" >>)}
    /\ check_fit = TRUE
    /\ catalog \in {<< << [name |-> << "A", "b" >>, placeholders |-> p] >> >> :
                       p \in PlaceLayouts}
    /\ dest_url = None
    /\ comments = None
    /\ cleanup_temp_files = TRUE
    /\ Idle
    /\ NoUpdate

SpecPlace == InitPlace /\ [][NextAddSlide]_vars

\* A destination URL with a network location, and one without.
BLOB_URL == << "h", ":", "/", "/", "b", "/", "d" >>

LOCAL_NAME == << "d" >>

MaxInstructions == 2

Shape(idx, text) == [idx |-> idx, text |-> text, font |-> None]

\* The presentation updated: a slide of two placeholders, and a slide of a
\* picture and two placeholders of the same index.
UpdateDocument ==
    << << Shape(Some(0), << "t" >>), Shape(Some(1), << "u" >>) >>,
       << Shape(None, << "p" >>), Shape(Some(1), << "v" >>),
          Shape(Some(1), << "w" >>) >> >>

PlaceholderUpdate(idx, text, font_size) ==
    [placeholder_idx |-> idx, text |-> text, font_size |-> font_size]

\* The lists of placeholder updates an instruction carries: none (the key is
\* missing), an empty one, valid updates, and valid ones among updates
\* without index, without text or with the index of no placeholder.
UpdateLists ==
    { None,
      Some(<< >>),
      Some(<< PlaceholderUpdate(Some(0), Some(<< "a" >>), None) >>),
      Some(<< PlaceholderUpdate(Some(1), Some(<< "b" >>), Some(12)) >>),
      Some(<< PlaceholderUpdate(Some(5), Some(<< "a" >>), None) >>),
      Some(<< PlaceholderUpdate(None, Some(<< "a" >>), None),
              PlaceholderUpdate(Some(1), Some(<< "c" >>), Some(0)) >>),
      Some(<< PlaceholderUpdate(Some(0), Some(<< "a" >>), None),
              PlaceholderUpdate(Some(0), None, Some(12)),
              PlaceholderUpdate(Some(5), Some(<< "b" >>), None),
              PlaceholderUpdate(Some(1), Some(<< >>), Some(12)) >>) }

\* The instructions: no slide index, one below and one past the slides, and
\* the index of each slide.
Instructions ==
    {[slide_index |-> i, updates |-> u] :
        i \in {None} \cup {Some(n) : n \in -1..Len(UpdateDocument)},
        u \in UpdateLists}

InitUpdate ==
    /\ pc = "update_start"
    /\ content = << >>
    /\ limits = DefaultLimits
    /\ slide_type = None
    /\ check_fit = FALSE
    /\ catalog = << >>
    /\ dest_url \in {Some(BLOB_URL), Some(LOCAL_NAME)}
    /\ comments = None
    /\ cleanup_temp_files = TRUE
    /\ Idle
    /\ document = UpdateDocument
    /\ prs = None
    /\ slide_updates \in {<< >>} \cup SeqsUpTo(Instructions, MaxInstructions)
    /\ update_index = 0
    /\ file_exc = None
    /\ success = None
    /\ error = None
    /\ returned = None
    /\ raised = None

SpecUpdate == InitUpdate /\ [][NextUpdate]_vars

\* The calls whose files are followed: a destination that is missing, empty,
\* a blob URL or a name without network location, with and without cleanup.
InitIO ==
    /\ pc = "start"
    /\ content \in {<< >>, TWO_LINES}
    /\ limits = DefaultLimits
    /\ slide_type \in {None, Some(<< "A", "b" >>)}
    /\ check_fit \in BOOLEAN
    /\ catalog = << << [name |-> << "A", "b" >>, placeholders |-> << 1, 3 >>] >> >>
    /\ dest_url \in {None, Some(<< >>), Some(BLOB_URL), Some(LOCAL_NAME)}
    /\ comments = None
    /\ cleanup_temp_files \in BOOLEAN
    /\ Idle
    /\ NoUpdate

SpecIO == InitIO /\ [][NextAddSlide]_vars

-----------------------------------------------------------------------------
(* Properties of check_content_fit, checked under SpecFit.                 *)

FitReturned == pc = "fit_return"

Fit == The(fit_result)

\* The lines of the content as given, before any trimming.
RawLines == Split(content)

IsBlank(line) == Strip(line) = << >>

\* The line holds LEFT COLUMN:, in whatever case.
MentionsLeft(line) == Contains(Lower(line), Lower(LEFT_MARKER))

\* The line holds RIGHT COLUMN:, in whatever case.
MentionsRight(line) == Contains(Lower(line), LOWER_RIGHT_MARKER)

IsMarker(line) == MentionsLeft(line) \/ MentionsRight(line)

\* The number of bullet and numbered lines among ls.
BulletLines(ls) ==
    Cardinality({i \in 1..Len(ls) : IsBulletOrNumbered(Strip(ls[i]))})

\* Every line, the title line given, the line count and the bullet count are
\* within the limits.
WithinLimits(ls, title_line) ==
    /\ \A i \in 1..Len(ls) : Len(ls[i]) <= limits.max_chars_per_line
    /\ Words(title_line) <= limits.max_title_words
    /\ Len(ls) <= limits.max_lines
    /\ BulletLines(ls) <= limits.max_bullets_per_column

CleanResult ==
    /\ Fit.fits = TRUE
    /\ Fit.warnings = << >>
    /\ Fit.content_complexity = 0

\* C1: for every content and every limits, the result of check_content_fit
\* has fits false if and only if its warnings are non-empty, the guard case
\* of empty or whitespace-only content included.
C1_FitsIffWarnings ==
    FitReturned => (Fit.fits = FALSE <=> Fit.warnings # << >>)

\* C2 as stated: for all content in which every line is within
\* max_chars_per_line, the first line within max_title_words, the line count
\* within max_lines and the bullet count within max_bullets_per_column, the
\* result is fits true, no warnings, complexity 0.
C2_WithinLimitsFits_Original ==
    (FitReturned /\ WithinLimits(RawLines, RawLines[1])) => CleanResult

FirstNonBlankLine ==
    RawLines[CHOOSE i \in 1..Len(RawLines) :
                 /\ ~IsBlank(RawLines[i])
                 /\ \A j \in 1..(i - 1) : IsBlank(RawLines[j])]

\* C2 amended: for all content that is not empty or whitespace-only, in which
\* every line is within max_chars_per_line, the first line that is not blank
\* is within max_title_words, the line count within max_lines and the bullet
\* count within max_bullets_per_column, the result is fits true, no warnings,
\* complexity 0.
C2_WithinLimitsFits ==
    (/\ FitReturned
     /\ ~IsBlank(content)
     /\ WithinLimits(RawLines, FirstNonBlankLine)) => CleanResult

\* A content of two lines after a blank first line, a bullet among them, all
\* within the limits, found clean.
C2_Witness ==
    /\ FitReturned
    /\ ~IsBlank(content)
    /\ WithinLimits(RawLines, FirstNonBlankLine)
    /\ IsBlank(RawLines[1])
    /\ BulletLines(RawLines) = 1
    /\ Len(RawLines) = 2
    /\ CleanResult

\* The cap of the rule that wrote a warning.
PenaltyCap(w) ==
    CASE w.kind \in {"title", "long_lines", "total_bullets", "total_lines"} -> 25
      [] w.kind = "single_column" -> 20
      [] w.kind \in {"left_column", "right_column"} -> 15
      [] OTHER -> 0

\* What the rule that wrote a warning counts before its cap: the excess the
\* warning reports, times the weight of the rule.
PenaltyUncapped(w) ==
    CASE w.kind = "title" -> (w.n - w.limit) * 5
      [] w.kind = "long_lines" -> w.n * 5
      [] w.kind = "total_bullets" -> (w.n - w.limit * 2) * 2
      [] w.kind \in {"single_column", "left_column", "right_column",
                     "total_lines"} -> (w.n - w.limit) * 2
      [] OTHER -> 0

RECURSIVE PenaltySum(_)
PenaltySum(ws) ==
    IF ws = << >> THEN 0
    ELSE Min(PenaltyCap(ws[1]), PenaltyUncapped(ws[1])) + PenaltySum(Tail(ws))

\* C3: for any content and any limits the complexity returned lies in
\* [0,100] and is the sum, clamped to 100, of the penalties of the rules
\* that warned, each bounded by its own cap (title 25, long lines 25, total
\* bullets 25, single column 20 or 15 per column, total lines 25).
C3_ComplexityIsClampedSum ==
    FitReturned =>
        /\ Fit.content_complexity \in 0..100
        /\ Fit.content_complexity = Min(100, PenaltySum(Fit.warnings))
        /\ \A i \in 1..Len(Fit.warnings) :
               Fit.warnings[i].kind # "empty"
                   => Min(PenaltyCap(Fit.warnings[i]),
                          PenaltyUncapped(Fit.warnings[i])) \in 1..25

\* Five rules warned, their capped penalties sum to more than 100 and the
\* complexity returned is 100.
C3_Witness ==
    /\ FitReturned
    /\ Len(Fit.warnings) = 5
    /\ PenaltySum(Fit.warnings) > 100
    /\ \E i \in 1..Len(Fit.warnings) :
           PenaltyUncapped(Fit.warnings[i]) > PenaltyCap(Fit.warnings[i])
    /\ Fit.content_complexity = 100

HasWarning(kind) == \E i \in 1..Len(Fit.warnings) : Fit.warnings[i].kind = kind

\* The bullets the analyzer counts in each column of the content.
ColumnCounts ==
    CountBullets(Split(Strip(content)), 1,
        [left_bullets |-> 0, right_bullets |-> 0,
         in_left_column |-> FALSE, in_right_column |-> FALSE])

HasBothMarkers ==
    /\ \E i \in 1..Len(RawLines) : MentionsLeft(RawLines[i])
    /\ \E i \in 1..Len(RawLines) : MentionsRight(RawLines[i])

\* C4: when the content holds both a LEFT COLUMN: and a RIGHT COLUMN: marker
\* the bullet overflow is judged per column: a column over
\* max_bullets_per_column gets its own warning (penalty capped at 15), and
\* the single-column rule is applied only when no two-column markers are
\* present.
C4_PerColumnOverflow ==
    (FitReturned /\ ~IsBlank(content) /\ HasBothMarkers) =>
        /\ ~HasWarning("single_column")
        /\ ColumnCounts.left_bullets > limits.max_bullets_per_column
               <=> HasWarning("left_column")
        /\ ColumnCounts.right_bullets > limits.max_bullets_per_column
               <=> HasWarning("right_column")

HasNoMarker == \A i \in 1..Len(RawLines) : ~IsMarker(RawLines[i])

\* C5: for content without column markers whose bullet and numbered lines
\* number more than max_bullets_per_column, the result has fits false and a
\* warning that carries the bullet count, and the body font suggested in the
\* end is 14 when the count exceeds the limit by more than 4 and 16
\* otherwise, whatever the long-lines and total-bullets rules wrote before.
C5_SingleColumnOverflow ==
    (/\ FitReturned
     /\ HasNoMarker
     /\ BulletLines(RawLines) > limits.max_bullets_per_column) =>
        /\ Fit.fits = FALSE
        /\ \E i \in 1..Len(Fit.warnings) :
               /\ Fit.warnings[i].kind = "single_column"
               /\ Fit.warnings[i].n = BulletLines(RawLines)
        /\ Fit.suggested_font_size.body =
               IF BulletLines(RawLines) > limits.max_bullets_per_column + 4
               THEN Some(14) ELSE Some(16)

\* Twenty bullets under the default limit of 8: the total-bullets rule wrote
\* 16 before, the warning carries 20 and the body font ends at 14.
C5_Witness ==
    /\ FitReturned
    /\ HasNoMarker
    /\ limits = DefaultLimits
    /\ BulletLines(RawLines) = 20
    /\ HasWarning("total_bullets")
    /\ Fit.fits = FALSE
    /\ \E i \in 1..Len(Fit.warnings) :
           Fit.warnings[i].kind = "single_column" /\ Fit.warnings[i].n = 20
    /\ Fit.suggested_font_size.body = Some(14)

-----------------------------------------------------------------------------
(* Properties of the layout resolution, checked under SpecResolve.         *)

\* The places (master, layout) of the catalog.
Places ==
    UNION {{<< m, l >> : l \in 1..Len(catalog[m])} : m \in 1..Len(catalog)}

NameAt(pl) == catalog[pl[1]][pl[2]].name

ExactPlaces == {pl \in Places : NameAt(pl) = The(slide_type)}

InsensitivePlaces ==
    {pl \in Places : Lower(NameAt(pl)) = Lower(The(slide_type))}

\* Master-then-layout enumeration order.
Before(p, q) == p[1] < q[1] \/ (p[1] = q[1] /\ p[2] <= q[2])

FirstPlace(S) == CHOOSE p \in S : \A q \in S : Before(p, q)

\* The resolution has run to its end.
Resolved == pc \notin {"start", "download", "resolve"} /\ layout_obj # None

\* The call is past line 397, where the slide is added.
PastAddSlide ==
    \/ pc \in {"title", "subtitle", "columns", "body", "textbox", "save"}
    \/ pc \in {"except", "finally", "done"} /\ exc = Some("save_failed")
    \/ pc \in {"finally", "done"} /\ exc = None

C7_NoNameFallsBack ==
    (/\ ~Truthy(slide_type)
     /\ pc = "done"
     /\ exc \notin {Some("no_bytes"), Some("not_a_presentation"),
                    Some("save_failed")}) =>
        /\ result_path # None
        /\ new_slide # None
        /\ The(new_slide).layout = << 1, 1 >>

\* C8: with a layout name given, an exact case-sensitive match anywhere in
\* the catalog is preferred over every case-insensitive match, also an
\* earlier one; the case-insensitive pass decides only when the exact pass
\* found nothing; within each pass the first match in master-then-layout
\* order is returned.
C8_ExactBeforeInsensitive ==
    (Truthy(slide_type) /\ Resolved) =>
        /\ ExactPlaces # {} => layout_obj = Some(FirstPlace(ExactPlaces))
        /\ (ExactPlaces = {} /\ InsensitivePlaces # {})
               => layout_obj = Some(FirstPlace(InsensitivePlaces))

\* The name requested is matched exactly by a layout of the second master
\* and case-insensitively by an earlier layout; the exact one is chosen.
C8_Witness ==
    /\ Truthy(slide_type)
    /\ Resolved
    /\ ExactPlaces # {}
    /\ FirstPlace(ExactPlaces)[1] = 2
    /\ FirstPlace(InsensitivePlaces) # FirstPlace(ExactPlaces)
    /\ layout_obj = Some(FirstPlace(ExactPlaces))
    /\ pc = "done"

-----------------------------------------------------------------------------
(* Properties of the content distribution, checked under SpecPlace.        *)

\* The column loop has run.
ColumnsDone == PastAddSlide /\ pc \notin {"title", "subtitle", "columns"}

\* The body step has run.
BodyDone == ColumnsDone /\ pc # "body"

Shapes == The(new_slide).shapes

\* The Body/Content placeholders of the slide, in shape order.
BodyShapes == PlaceholdersOfType(Shapes, {3, 7}, 1)

\* The lines left after the title and the subtitle that are no marker.
RECURSIVE NonMarkerLines(_)
NonMarkerLines(ls) ==
    IF ls = << >> THEN << >>
    ELSE (IF IsMarker(ls[1]) THEN << >> ELSE << ls[1] >>)
         \o NonMarkerLines(Tail(ls))

\* The elements of ls at the positions side maps to s, in order.
RECURSIVE Side(_, _, _, _)
Side(ls, side, s, i) ==
    IF i > Len(ls) THEN << >>
    ELSE (IF side[i] = s THEN << ls[i] >> ELSE << >>) \o Side(ls, side, s, i + 1)

\* C9: after the title and the subtitle, whenever the slide has a
\* Body/Content placeholder every remaining non-marker line is written to a
\* Body placeholder and none is dropped: with two Body placeholders the
\* left-side lines go to the first and the right-side lines to the second,
\* and with any other number the first receives the left-side lines followed
\* by the right-side lines, also when column markers are present.
C9_BodyReceivesAllLines ==
    (BodyDone /\ BodyShapes # << >>) =>
        IF Len(BodyShapes) = 2
        THEN /\ Shapes[BodyShapes[1]].text = Some(Join(left_column_content))
             /\ Shapes[BodyShapes[2]].text = Some(Join(right_column_content))
        ELSE Shapes[BodyShapes[1]].text =
                 Some(Join(left_column_content \o right_column_content))

\* C10: for any sequence of remaining lines, every non-marker line is exactly
\* once in left_column_content or right_column_content, no marker line is in
\* either, and each side keeps the original order of its lines.
C10_ColumnPartition ==
    ColumnsDone =>
        LET rest == NonMarkerLines(lines)
        IN  /\ \A i \in 1..Len(left_column_content) :
                   ~IsMarker(left_column_content[i])
            /\ \A i \in 1..Len(right_column_content) :
                   ~IsMarker(right_column_content[i])
            /\ \E side \in [1..Len(rest) -> {"left", "right"}] :
                   /\ Side(rest, side, "left", 1) = left_column_content
                   /\ Side(rest, side, "right", 1) = right_column_content

\* Lines on both sides of two markers, the right one in lower case, split
\* into a left and a right side that are both non-empty.
C10_Witness ==
    /\ ColumnsDone
    /\ column_mode
    /\ \E i \in 1..Len(lines) : MentionsLeft(lines[i])
    /\ \E i \in 1..Len(lines) : lines[i] = LOWER_RIGHT_MARKER
    /\ left_column_content # << >>
    /\ right_column_content # << >>
    /\ left_column_content # right_column_content

\* Some remaining line is a column marker.
HasMarker == \E i \in 1..Len(lines) : IsMarker(lines[i])

\* A marker line that selects the right side: one that mentions the right
\* column and not the left one.
SelectsRight(line) == MentionsRight(line) /\ ~MentionsLeft(line)

\* No marker of the left column comes after a marker of the right column.
LeftMarkersFirst ==
    \A i, j \in 1..Len(lines) :
        (i < j /\ SelectsRight(lines[i])) => ~MentionsLeft(lines[j])

\* C11 as stated: for any content with column markers, in any number and any
\* order, right before left and repeated markers included, the left side
\* followed by the right side is the sequence of the non-marker lines in
\* their original order.
C11_ColumnReconstruction_Original ==
    (ColumnsDone /\ HasMarker) =>
        left_column_content \o right_column_content = NonMarkerLines(lines)

\* C11: for any content with column markers in which no marker of the left
\* column comes after a marker of the right column, the left side followed by
\* the right side is the sequence of the non-marker lines in their original
\* order.
C11_ColumnReconstruction ==
    (ColumnsDone /\ HasMarker /\ LeftMarkersFirst) =>
        left_column_content \o right_column_content = NonMarkerLines(lines)

\* A line ahead of the first marker, then a left and a right marker in that
\* order with both sides non-empty.
C11_Witness ==
    /\ ColumnsDone
    /\ HasMarker
    /\ LeftMarkersFirst
    /\ lines # << >>
    /\ ~IsMarker(lines[1])
    /\ \E i \in 1..Len(lines) : MentionsLeft(lines[i])
    /\ \E i \in 1..Len(lines) : SelectsRight(lines[i])
    /\ right_column_content # << >>
    /\ left_column_content \o right_column_content = NonMarkerLines(lines)

\* The side line i of ls belongs to: "marker" for a marker line, else the
\* side the nearest marker above it names, the left one when there is none.
WhichSide(ls, i) ==
    IF IsMarker(ls[i]) THEN "marker"
    ELSE LET above == {j \in 1..(i - 1) : IsMarker(ls[j])}
         IN  IF above = {} THEN "left"
             ELSE LET last == CHOOSE j \in above : \A k \in above : k <= j
                  IN  IF MentionsLeft(ls[last]) THEN "left" ELSE "right"

\* The slide has exactly two Body/Content placeholders.
TwoBodies == Len(BodyShapes) = 2

\* C12: when the slide has exactly two Body/Content placeholders, with column
\* markers among the remaining lines the first receives the left-side lines
\* joined by newlines and the second the right-side lines joined by
\* newlines, and without markers the remaining lines are split at
\* floor(n / 2), the first half to the first placeholder and the rest to the
\* second.
C12_TwoBodyColumns ==
    (BodyDone /\ TwoBodies) =>
        LET n == Len(lines)
            first == IF HasMarker
                     THEN Side(lines, [i \in 1..n |-> WhichSide(lines, i)], "left", 1)
                     ELSE SubSeq(lines, 1, n \div 2)
            second == IF HasMarker
                      THEN Side(lines, [i \in 1..n |-> WhichSide(lines, i)], "right", 1)
                      ELSE SubSeq(lines, (n \div 2) + 1, n)
        IN  /\ Shapes[BodyShapes[1]].text = Some(Join(first))
            /\ Shapes[BodyShapes[2]].text = Some(Join(second))

\* Two marked columns of two bullets and one on two Body placeholders: the
\* first holds "- a\n- b" and the second "- c".
C12_Witness ==
    /\ BodyDone
    /\ TwoBodies
    /\ lines = << LEFT_MARKER, << "-", " ", "a" >>, << "-", " ", "b" >>,
                  RIGHT_MARKER, << "-", " ", "c" >> >>
    /\ Shapes[BodyShapes[1]].text =
           Some(<< "-", " ", "a", NL, "-", " ", "b" >>)
    /\ Shapes[BodyShapes[2]].text = Some(<< "-", " ", "c" >>)

\* Three unmarked remaining lines on two Body placeholders: one line in the
\* first and two in the second.
C12_WitnessHalves ==
    /\ BodyDone
    /\ TwoBodies
    /\ ~HasMarker
    /\ Len(lines) = 3
    /\ Shapes[BodyShapes[1]].text = Some(lines[1])
    /\ Shapes[BodyShapes[2]].text = Some(Join(<< lines[2], lines[3] >>))

\* The title and the subtitle steps have run.
SubtitleDone == PastAddSlide /\ pc \notin {"title", "subtitle"}

TitleShapes == PlaceholdersOfType(Shapes, {1}, 1)

SubtitleShapes == PlaceholdersOfType(Shapes, {2}, 1)

\* The lines of the content as handed to the distributor.
AllLines == Split(content)

\* The number of lines the title step takes.
TitleTakes == IF TitleShapes # << >> /\ AllLines # << >> THEN 1 ELSE 0

\* The lines left to the subtitle step.
AfterTitle == SubSeq(AllLines, TitleTakes + 1, Len(AllLines))

\* The number of lines the subtitle step takes.
SubtitleTakes ==
    IF /\ SubtitleShapes # << >>
       /\ AfterTitle # << >>
       /\ Len(Strip(AfterTitle[1])) < 50
    THEN 1 ELSE 0

\* C13: the title and the subtitle each take at most one line from the front
\* of the content, in that order: the title placeholder receives the first
\* line, the subtitle placeholder receives the next line only if a subtitle
\* placeholder exists, a line remains and its trimmed length is under 50, and
\* otherwise that line is not taken and stays first among the lines handed
\* to the body step.
C13_TitleSubtitleConsumption ==
    SubtitleDone =>
        /\ lines = SubSeq(AllLines, TitleTakes + SubtitleTakes + 1, Len(AllLines))
        /\ TitleTakes = 1 => Shapes[TitleShapes[1]].text = Some(AllLines[1])
        /\ \A i \in 2..Len(TitleShapes) : Shapes[TitleShapes[i]].text = None
        /\ SubtitleShapes # << >> =>
               Shapes[SubtitleShapes[1]].text =
                   IF SubtitleTakes = 1 THEN Some(AfterTitle[1]) ELSE None
        /\ \A i \in 2..Len(SubtitleShapes) : Shapes[SubtitleShapes[i]].text = None

\* A title, a short subtitle and two points on a slide with a title, a
\* subtitle and a body placeholder: the first two lines are taken and the
\* points are left.
C13_Witness ==
    /\ SubtitleDone
    /\ TitleShapes # << >>
    /\ SubtitleShapes # << >>
    /\ Shapes[TitleShapes[1]].text = Some(<< "M", "y", " ", "T", "i", "t", "l", "e" >>)
    /\ Shapes[SubtitleShapes[1]].text =
           Some(<< "S", "h", "o", "r", "t", " ", "s", "u", "b", "t", "i", "t",
                   "l", "e" >>)
    /\ Len(lines) = 2
    /\ lines[1] = << "-", " ", "p", "o", "i", "n", "t", " ", "o", "n", "e" >>

\* A second line of fifty characters is not taken by the subtitle and stays
\* first among the remaining lines.
C13_WitnessLong ==
    /\ SubtitleDone
    /\ TitleShapes # << >>
    /\ SubtitleShapes # << >>
    /\ Shapes[SubtitleShapes[1]].text = None
    /\ lines # << >>
    /\ Len(lines[1]) = 50

\* The text box step has run.
TextBoxDone == BodyDone /\ pc # "textbox"

\* The non-marker lines of the left side followed by those of the right side.
LeftThenRight ==
    Side(lines, [i \in 1..Len(lines) |-> WhichSide(lines, i)], "left", 1)
    \o Side(lines, [i \in 1..Len(lines) |-> WhichSide(lines, i)], "right", 1)

\* C14 as stated: when the slide has no Body/Content placeholder and at least
\* one line remains after the title and the subtitle, a text box is added
\* that receives all remaining non-marker lines, left side then right side;
\* when a Body placeholder took the content no text box is added.
C14_TextBoxFallback_Original ==
    TextBoxDone =>
        /\ (BodyShapes = << >> /\ lines # << >>) =>
               /\ textbox # None
               /\ The(textbox).text = Join(LeftThenRight)
        /\ BodyShapes # << >> => textbox = None

\* C14: when the slide has no Body/Content placeholder and at least one
\* non-marker line remains after the title and the subtitle, a text box is
\* added that receives all remaining non-marker lines, left side then right
\* side; when no such line remains or a Body placeholder took the content no
\* text box is added.
C14_TextBoxFallback ==
    TextBoxDone =>
        /\ (BodyShapes = << >> /\ NonMarkerLines(lines) # << >>) =>
               /\ textbox # None
               /\ The(textbox).text = Join(LeftThenRight)
        /\ (BodyShapes # << >> \/ NonMarkerLines(lines) = << >>) => textbox = None

\* A slide without Body placeholder and remaining lines on both sides of a
\* right marker: the text box holds the left line, then the right one.
C14_Witness ==
    /\ TextBoxDone
    /\ BodyShapes = << >>
    /\ HasMarker
    /\ left_column_content # << >>
    /\ right_column_content # << >>
    /\ textbox # None
    /\ The(textbox).text = Join(left_column_content \o right_column_content)

\* Some line of the text is a column marker.
HoldsMarker(text) == \E i \in 1..Len(Split(text)) : IsMarker(Split(text)[i])

\* C20: a column marker line is never written as text into a shape of the
\* new slide, be it the title, the subtitle, a body placeholder or the text
\* box, wherever the marker is in the content, its first and second line
\* included.
C20_MarkersNeverWritten ==
    PastAddSlide =>
        /\ \A k \in 1..Len(Shapes) :
               Shapes[k].text # None => ~HoldsMarker(The(Shapes[k].text))
        /\ textbox # None => ~HoldsMarker(The(textbox).text)

\* The lines check_content_fit measures and counts.
MeasuredLines == StrippedLines(content)

\* C21: for any content, content that starts or ends with blank lines
\* included, the line check_content_fit measures as the title and derives the
\* title font size from is the line add_slide_from_blob_url writes to the
\* title placeholder, and the number of lines check_content_fit counts is the
\* number of lines add_slide_from_blob_url places.
C21_AnalyzerAgreesWithDistributor ==
    (SubtitleDone /\ fit_result # None) =>
        /\ TitleShapes # << >> =>
               Shapes[TitleShapes[1]].text = Some(MeasuredLines[1])
        /\ (TitleShapes # << >> /\ The(fit_result).suggested_font_size.title # None) =>
               Words(The(Shapes[TitleShapes[1]].text)) > DEFAULT_MAX_TITLE_WORDS
        /\ Len(MeasuredLines) = Len(AllLines)

-----------------------------------------------------------------------------
(* Properties of the batch update, checked under SpecUpdate.               *)

\* update_powerpoint_file has returned.
FileReturned == success # None

\* The placeholder updates of the instructions from instruction i on, in
\* order, each with the slide index of its instruction.
RECURSIVE FlatUpdates(_, _)
FlatUpdates(batch, i) ==
    IF i > Len(batch) THEN << >>
    ELSE LET given == IF batch[i].updates = None THEN << >>
                      ELSE The(batch[i].updates)
         IN  [j \in 1..Len(given) |->
                 [slide_index |-> batch[i].slide_index, update |-> given[j]]]
             \o FlatUpdates(batch, i + 1)

\* The shapes of slide s of the presentation updated that are the placeholder
\* of index idx.
PlaceholdersAt(s, idx) ==
    {k \in 1..Len(UpdateDocument[s]) : UpdateDocument[s][k].idx = Some(idx)}

\* The update names a slide and a placeholder that exist, and carries a text.
IsValidUpdate(f) ==
    /\ f.slide_index # None
    /\ The(f.slide_index) \in 0..(Len(UpdateDocument) - 1)
    /\ f.update.placeholder_idx # None
    /\ f.update.text # None
    /\ PlaceholdersAt(The(f.slide_index) + 1, The(f.update.placeholder_idx)) # {}

\* The slide and the shape a valid update writes: the first placeholder of
\* its index.
TargetOf(f) ==
    LET s == The(f.slide_index) + 1
        at == PlaceholdersAt(s, The(f.update.placeholder_idx))
    IN  << s, CHOOSE k \in at : \A j \in at : k <= j >>

\* The text shape k of slide s holds once every valid update of the batch is
\* applied in order: the text of the last one that writes it, or its own.
ExpectedText(s, k) ==
    LET flat == FlatUpdates(slide_updates, 1)
        writes == {n \in 1..Len(flat) :
                      IsValidUpdate(flat[n]) /\ TargetOf(flat[n]) = << s, k >>}
    IN  IF writes = {} THEN UpdateDocument[s][k].text
        ELSE The(flat[CHOOSE n \in writes : \A m \in writes : m <= n].update.text)

UpdateEnded == pc = "update_done"

\* The download, the update and the upload have all succeeded.
AllSucceeded ==
    /\ local_path # None
    /\ success = Some(TRUE)
    /\ error = Some(<< TRUE, None >>)

\* C18: update_powerpoint_from_blob returns (True, "") whenever the download,
\* the update and the upload all succeed, and on every path it returns a
\* (bool, message) pair and no exception leaves the call.
C18_UpdateReturnsPair ==
    UpdateEnded =>
        /\ raised = None
        /\ returned # None
        /\ AllSucceeded => returned = Some(<< TRUE, "" >>)

-----------------------------------------------------------------------------
(* Properties of the files and the result of add_slide_from_blob_url,      *)
(* checked under SpecIO.                                                   *)

\* add_slide_from_blob_url has returned.
AddSlideReturned == pc = "done"

\* A destination was supplied.
DestinationSupplied == dest_url # None /\ The(dest_url) # << >>

\* Saving the document or transferring it to the destination failed.
PersistenceFailed == exc = Some("save_failed") \/ upload_error # None

\* C16: when a destination is supplied and saving or uploading the modified
\* document to it fails, add_slide_from_blob_url returns the failure signal
\* (None) and no document locator.
C16_PersistenceFailureFatal ==
    (AddSlideReturned /\ DestinationSupplied /\ PersistenceFailed) =>
        result_path = None

\* C17: after add_slide_from_blob_url returns with cleanup_temp_files true,
\* by success or by failure, no temporary file made for the source document
\* during the call still exists.
C17_SourceTempReleased ==
    (AddSlideReturned /\ cleanup_temp_files) =>
        files \cap {SRC_TEMP, DOWNLOAD_TEMP} = {}

\* C19: whenever add_slide_from_blob_url returns a local file path, that file
\* exists after the call has ended, its finally block included.
C19_ReturnedFileExists ==
    (AddSlideReturned /\ result_path # None /\ The(result_path).kind = "file") =>
        The(result_path).at \in files

=============================================================================
